---------------------------- MODULE Spec2Model ----------------------------
(***************************************************************************)
(* AquaLens server: the HMPI computation (services.py), the SQLite store   *)
(* (database.py) and the handlers that call them (routes.py).              *)
(*                                                                         *)
(* Units.  Coordinates are integers in hundredths of a degree, so the      *)
(* proximity tolerance 0.05 is 5.  Concentrations are integers in units of *)
(* 1e-7 mg/L and the regulatory standards in units of 1e-3 mg/L.  A stored *)
(* HMPI is an integer number of hundredths (round(hmpi, 2)); before        *)
(* rounding it is the exact rational num/den, also in hundredths.  Float   *)
(* arithmetic is modelled by exact arithmetic, except for overflow to      *)
(* infinity, which the cell kind "huge" stands for.                        *)
(***************************************************************************)
EXTENDS Integers, Sequences, FiniteSets, TLC

VARIABLES
    cities,          \* table cities: sequence of rows, the row's index is its id
    samples,         \* table samples: sequence of rows, the row's index is its id
    city_summary,    \* table city_summary: set of rows keyed by city_id
    datasets,        \* table datasets: set of rows keyed by id
    dataset_samples, \* table dataset_samples: set of rows keyed by id
    now,             \* CURRENT_TIMESTAMP, in seconds
    frame,           \* the frame handed to the pure functions of services.py
    ret,             \* what the last handler call returned or raised
    writers          \* per server process: the write call in progress

vars == <<cities, samples, city_summary, datasets, dataset_samples, now, frame, ret, writers>>
store == <<cities, samples, city_summary, datasets, dataset_samples>>

-----------------------------------------------------------------------------
(* Bounds of the model.                                                    *)

MaxMetals == 2      \* the frames of SpecHmpi use the first MaxMetals metals
MaxRows == 2        \* rows of one uploaded batch
MaxSamples == 3     \* rows of table samples
MaxDatasets == 2    \* rows of table datasets
MaxClock == 2       \* seconds the clock may advance
MaxNearby == 12     \* rows of table samples in SpecNearby
MaxLockSamples == 2 \* rows of table samples in SpecLock
MaxFindCities == 3  \* rows of table cities in SpecFind

-----------------------------------------------------------------------------
(* Values.                                                                 *)

NULL == -1                      \* None / NaN / SQL NULL of a numeric field
NaNLabel == <<"<NaN>">>         \* a missing City cell (pd.notna is false)

Range(s) == {s[i] : i \in DOMAIN s}

Max(S) == CHOOSE x \in S : \A y \in S : y <= x
Min(S) == CHOOSE x \in S : \A y \in S : x <= y

\* A cell of a metal column as read from the CSV.
Num(v) == [k |-> "num", v |-> v]    \* a finite number
NaNCell == [k |-> "nan", v |-> 0]   \* an empty cell
TextCell == [k |-> "text", v |-> 0] \* a cell that does not parse as a number
InfCell == [k |-> "inf", v |-> 1]   \* the text "inf"
HugeCell == [k |-> "huge", v |-> 1] \* 1e307: finite, but 1e307 / standard * 100 is inf

-----------------------------------------------------------------------------
(* services.py                                                             *)

MetalOrder ==
    <<"Lead", "Cadmium", "Arsenic", "Mercury", "Chromium", "Nickel", "Copper",
      "Zinc", "Iron", "Manganese", "Aluminum", "Antimony", "Selenium",
      "Uranium", "Thallium">>

STANDARDS ==
    [m \in Range(MetalOrder) |->
        CASE m = "Lead" -> 10 [] m = "Cadmium" -> 3 [] m = "Arsenic" -> 10
          [] m = "Mercury" -> 1 [] m = "Chromium" -> 50 [] m = "Nickel" -> 70
          [] m = "Copper" -> 2000 [] m = "Zinc" -> 3000 [] m = "Iron" -> 300
          [] m = "Manganese" -> 400 [] m = "Aluminum" -> 200
          [] m = "Antimony" -> 20 [] m = "Selenium" -> 40
          [] m = "Uranium" -> 30 [] m = "Thallium" -> 1]

HasCol(df, c) == c \in Range(df.columns)

\* [metal for metal in STANDARDS.keys() if metal in df.columns]
available_metals(df) == {m \in Range(MetalOrder) : HasCol(df, m)}

RECURSIVE Gcd(_, _)
Gcd(a, b) == IF b = 0 THEN a ELSE Gcd(b, a % b)

RECURSIVE Lcm(_)
Lcm(S) ==
    IF S = {} THEN 1
    ELSE LET x == CHOOSE y \in S : TRUE
             r == Lcm(S \ {x})
         IN (x * r) \div Gcd(x, r)

\* pd.to_numeric(errors='coerce') followed by where(>= 0 and isfinite).
clean_cell(x) ==
    LET numeric == IF x.k = "text" THEN NaNCell ELSE x
    IN IF numeric.k = "num" /\ numeric.v >= 0 THEN numeric
       ELSE IF numeric.k = "huge" THEN numeric
       ELSE NaNCell

clean_metal_data(df) ==
    [df EXCEPT !.rows =
        [i \in DOMAIN df.rows |->
            [c \in DOMAIN df.rows[i] |->
                IF c \in available_metals(df) THEN clean_cell(df.rows[i][c])
                ELSE df.rows[i][c]]]]

\* pd.notna(row[metal]) and row[metal] > 0
positive_cell(x) == x.k = "huge" \/ (x.k = "num" /\ x.v > 0)

\* np.isfinite(sub_index) and np.isfinite(weight)
finite_sub_index(x) == x.k = "num"

weight_mut(m, scale) == scale

\* 1 / standard, times the common factor scale (a multiple of every standard
\* of the frame), which cancels in total_weighted / total_weights.
weight(m, scale) == scale \div STANDARDS[m]

\* The loop over STANDARDS.items() from position i on: the totals it adds.
\* total_weighted is in units of 1 / (100 * scale) hundredths.
RECURSIVE accumulate(_, _, _, _)
accumulate(df, row, scale, i) ==
    IF i > Len(MetalOrder) THEN [total_weighted |-> 0, total_weights |-> 0]
    ELSE LET m == MetalOrder[i]
             rest == accumulate(df, row, scale, i + 1)
         IN IF HasCol(df, m) /\ positive_cell(row[m]) /\ finite_sub_index(row[m])
            THEN [total_weighted |->
                      rest.total_weighted + row[m].v * weight(m, scale) * weight(m, scale),
                  total_weights |-> rest.total_weights + weight(m, scale)]
            ELSE rest

\* round(x, 2) of the rational num / den given in hundredths: to the nearest
\* hundredth, an exact half to the even neighbour (the float computation gives
\* that result for the halves the inputs below produce).
round2(num, den) ==
    LET q == num \div den
        r == num % den
    IN IF 2 * r < den THEN q
       ELSE IF 2 * r > den THEN q + 1
       ELSE IF q % 2 = 0 THEN q ELSE q + 1

\* The if / elif chain on the unrounded hmpi = num / den hundredths.
classify(num, den) ==
    IF num < 10000 * den THEN "Low Pollution"
    ELSE IF num < 20000 * den THEN "Moderate Pollution"
    ELSE IF num < 30000 * den THEN "High Pollution"
    ELSE "Very High Pollution"

\* One pass of the loop over df.iterrows(): the row's HMPI and Classification.
hmpi_of_row_mut(df, row) ==
    LET scale == Lcm({STANDARDS[m] : m \in available_metals(df)})
        t == accumulate(df, row, scale, 1)
    IN IF t.total_weights > 0
       THEN [HMPI |-> round2(t.total_weighted, scale * t.total_weights),
             Classification |-> classify(t.total_weighted, scale * t.total_weights)]
       ELSE [HMPI |-> 0, Classification |-> "Low Pollution"]

hmpi_of_row(df, row) ==
    LET scale == Lcm({STANDARDS[m] : m \in available_metals(df)})
        t == accumulate(df, row, scale, 1)
    IN IF t.total_weights > 0
       THEN [HMPI |-> round2(t.total_weighted, scale * t.total_weights),
             Classification |-> classify(t.total_weighted, scale * t.total_weights)]
       ELSE [HMPI |-> NULL, Classification |-> "No Data"]

\* df["HMPI"] = ...; df["Classification"] = ...: a new column is appended,
\* an existing one is overwritten in place.
with_column(columns, c) == IF c \in Range(columns) THEN columns ELSE Append(columns, c)

calculate_hmpi(df) ==
    LET cleaned == clean_metal_data(df)
    IN [columns |-> with_column(with_column(cleaned.columns, "HMPI"), "Classification"),
        rows |->
            [i \in DOMAIN cleaned.rows |->
                LET row == cleaned.rows[i]
                    h == hmpi_of_row(cleaned, row)
                IN [c \in DOMAIN row \cup {"HMPI", "Classification"} |->
                        IF c = "HMPI" THEN h.HMPI
                        ELSE IF c = "Classification" THEN h.Classification
                        ELSE row[c]]]]

required_columns == <<"Latitude", "Longitude", "City">>

process_csv_data_mut(df) ==
    LET missing_columns == {c \in Range(required_columns) : ~HasCol(df, c)}
    IN IF missing_columns # {}
       THEN [ok |-> FALSE, error |-> "required columns", missing |-> missing_columns]
       ELSE [ok |-> TRUE, df |-> calculate_hmpi(df)]

\* Returns the processed frame, or raises ValueError.
process_csv_data(df) ==
    LET missing_columns == {c \in Range(required_columns) : ~HasCol(df, c)}
    IN IF missing_columns # {}
       THEN [ok |-> FALSE, error |-> "required columns", missing |-> missing_columns]
       ELSE IF available_metals(df) = {}
       THEN [ok |-> FALSE, error |-> "no metal column", missing |-> {}]
       ELSE [ok |-> TRUE, df |-> calculate_hmpi(df)]

-----------------------------------------------------------------------------
(* database.py: the tables and the city resolution                         *)

Tol == 5    \* 0.05 degrees

\* LOWER() of SQLite on the letters the model uses.
lower_char(ch) == IF ch = "A" THEN "a" ELSE IF ch = "B" THEN "b" ELSE ch

LOWER(s) == [i \in DOMAIN s |-> lower_char(s[i])]

IsSubstring(p, s) ==
    \E i \in 0..(Len(s) - Len(p)) : \A j \in 1..Len(p) : s[i + j] = p[j]

\* LOWER(c.name) LIKE LOWER('%' || city_name || '%')
like_match(name, city_name) == IsSubstring(LOWER(city_name), LOWER(name))

\* str.strip() on a label whose only whitespace is the blank.
RECURSIVE lstrip(_)
lstrip(s) == IF s # <<>> /\ Head(s) = " " THEN lstrip(Tail(s)) ELSE s

RECURSIVE rstrip(_)
rstrip(s) ==
    IF s # <<>> /\ s[Len(s)] = " " THEN rstrip(SubSeq(s, 1, Len(s) - 1)) ELSE s

strip(s) == lstrip(rstrip(s))

Abs(x) == IF x < 0 THEN -x ELSE x

within_box_mut(c, lat, lon) == c.latitude = lat /\ c.longitude = lon

\* WHERE ABS(latitude - ?) < 0.05 AND ABS(longitude - ?) < 0.05
within_box(c, lat, lon) ==
    Abs(c.latitude - lat) < Tol /\ Abs(c.longitude - lon) < Tol

\* SELECT id FROM cities WHERE ... LIMIT 1: the first match in rowid order,
\* 0 when fetchone() gives None.
nearby_city_mut(cs, lat, lon) ==
    LET hits == {i \in DOMAIN cs : \/ Abs(cs[i].latitude - lat) < Tol
                                   \/ Abs(cs[i].longitude - lon) < Tol}
    IN IF hits = {} THEN 0 ELSE Min(hits)

nearby_city(cs, lat, lon) ==
    LET hits == {i \in DOMAIN cs : within_box(cs[i], lat, lon)}
    IN IF hits = {} THEN 0 ELSE Min(hits)

\* pd.notna(row['City']) and row['City'].strip()
has_city_label(row) == row["City"] # NaNLabel /\ strip(row["City"]) # <<>>

new_city(row) ==
    [name |-> strip(row["City"]), state |-> "Unknown State",
     country |-> "Unknown Country",
     latitude |-> row["Latitude"], longitude |-> row["Longitude"]]

RECURSIVE resolve_rows_mut(_, _, _)
resolve_rows_mut(cs, rows, i) ==
    IF i > Len(rows) THEN [ok |-> TRUE, cities |-> cs, city_ids |-> <<>>, at |-> 0]
    ELSE LET row == rows[i]
             found == nearby_city(cs, row["Latitude"], row["Longitude"])
         IN IF found # 0
            THEN LET moved == [cs EXCEPT ![found].latitude = row["Latitude"],
                                         ![found].longitude = row["Longitude"]]
                     r == resolve_rows_mut(moved, rows, i + 1)
                 IN IF r.ok THEN [r EXCEPT !.city_ids = <<found>> \o @] ELSE r
            ELSE IF has_city_label(row)
            THEN LET grown == Append(cs, new_city(row))
                     r == resolve_rows_mut(grown, rows, i + 1)
                 IN IF r.ok THEN [r EXCEPT !.city_ids = <<Len(grown)>> \o @] ELSE r
            ELSE [ok |-> FALSE, cities |-> cs, city_ids |-> <<>>, at |-> i]

\* The loop over df.iterrows() of save_dataset and of save_samples, from row i
\* on, inside the open transaction: each row's city is found or inserted.
\* ok is FALSE when a row raised ValueError; at is that row.
RECURSIVE resolve_rows(_, _, _)
resolve_rows(cs, rows, i) ==
    IF i > Len(rows) THEN [ok |-> TRUE, cities |-> cs, city_ids |-> <<>>, at |-> 0]
    ELSE LET row == rows[i]
             found == nearby_city(cs, row["Latitude"], row["Longitude"])
         IN IF found # 0
            THEN LET r == resolve_rows(cs, rows, i + 1)
                 IN IF r.ok THEN [r EXCEPT !.city_ids = <<found>> \o @] ELSE r
            ELSE IF has_city_label(row)
            THEN LET grown == Append(cs, new_city(row))
                     r == resolve_rows(grown, rows, i + 1)
                 IN IF r.ok THEN [r EXCEPT !.city_ids = <<Len(grown)>> \o @] ELSE r
            ELSE [ok |-> FALSE, cities |-> cs, city_ids |-> <<>>, at |-> i]

\* The SELECT of update_city_summaries: one row per city_id among the samples
\* with a non-null hmpi_value.  With the single aggregate MAX(upload_date),
\* SQLite takes the bare columns hmpi_value and classification from a row that
\* holds the maximum: the first such row of the scan.
summary_groups(smp) ==
    {smp[i].city_id : i \in {j \in DOMAIN smp : smp[j].hmpi_value # NULL}}

summary_rows_mut(smp) ==
    {LET g == {i \in DOMAIN smp : smp[i].city_id = c /\ smp[i].hmpi_value # NULL}
         pick == Min(g)
     IN [city_id |-> c,
         latest_hmpi |-> smp[pick].hmpi_value,
         latest_classification |-> smp[pick].classification,
         total_samples |-> Cardinality(g),
         last_updated |-> Max({smp[i].upload_date : i \in g})] : c \in summary_groups(smp)}

summary_rows(smp) ==
    {LET g == {i \in DOMAIN smp : smp[i].city_id = c /\ smp[i].hmpi_value # NULL}
         last == Max({smp[i].upload_date : i \in g})
         pick == Min({i \in g : smp[i].upload_date = last})
     IN [city_id |-> c,
         latest_hmpi |-> smp[pick].hmpi_value,
         latest_classification |-> smp[pick].classification,
         total_samples |-> Cardinality(g),
         last_updated |-> last] : c \in summary_groups(smp)}

update_city_summaries_mut(summary, smp, locked) ==
    IF locked THEN summary
    ELSE {IF \E e \in summary : e.city_id = n.city_id
          THEN LET e == CHOOSE x \in summary : x.city_id = n.city_id
               IN [n EXCEPT !.total_samples = e.total_samples + n.total_samples]
          ELSE n : n \in summary_rows(smp)}

\* update_city_summaries on its own connection.  locked: another connection
\* holds the write lock for the whole busy timeout, so BEGIN IMMEDIATE raises
\* "database is locked" and the rebuild is skipped.
update_city_summaries_unguarded(summary, smp, locked) ==
    summary_rows(smp)

update_city_summaries(summary, smp, locked) ==
    IF locked THEN summary
    ELSE LET deleted == summary \ summary    \* DELETE FROM city_summary
         IN deleted \cup summary_rows(smp)

-----------------------------------------------------------------------------
(* database.py: the write paths                                            *)

\* The text of one CSV field as DataFrame.to_csv writes it: empty for NaN and
\* None, the value's text otherwise.
csv_field(c, v) ==
    IF c \in {"Latitude", "Longitude"} THEN ToString(v)
    ELSE IF c = "City" THEN (IF v = NaNLabel THEN "" ELSE ToString(v))
    ELSE IF c = "HMPI" THEN (IF v = NULL THEN "" ELSE ToString(v))
    ELSE IF c = "Classification" THEN v
    ELSE IF v.k = "num" THEN ToString(v.v)
    ELSE IF v.k = "huge" THEN "1e+307"
    ELSE ""

\* df.to_csv(csv_buffer, index=False): the header line, then one line per row.
to_csv(df) ==
    <<df.columns>> \o
    [i \in DOMAIN df.rows |->
        [j \in DOMAIN df.columns |-> csv_field(df.columns[j], df.rows[i][df.columns[j]])]]

\* The literal list of metal names in save_dataset's metadata.
metadata_metals ==
    {"Lead", "Cadmium", "Arsenic", "Mercury", "Chromium", "Nickel", "Copper",
     "Zinc", "Iron", "Manganese"}

metadata(df) ==
    [columns |-> df.columns,
     metals_analyzed |-> SelectSeq(df.columns, LAMBDA c : c \in metadata_metals)]

next_rowid_mut(table) == Cardinality(table) + 1

\* cursor.lastrowid of an INSERT into a table with INTEGER PRIMARY KEY: one
\* more than the largest rowid in the table.
next_rowid(table) == IF table = {} THEN 1 ELSE Max({r.id : r \in table}) + 1

name_taken_mut(dataset_name) == FALSE

\* name TEXT NOT NULL UNIQUE: the INSERT INTO datasets raises IntegrityError
\* when a stored dataset has the name.
name_taken(dataset_name) == \E d \in datasets : d.name = dataset_name

save_dataset_mut(df, dataset_name) ==
    LET unchanged == [cities |-> cities, datasets |-> datasets,
                      dataset_samples |-> dataset_samples,
                      city_summary |-> city_summary]
        dataset_id == next_rowid(datasets)
        first_sample == next_rowid(dataset_samples)
        r == resolve_rows(cities, df.rows, 1)
    IN IF \E d \in datasets : d.name = dataset_name
       THEN unchanged @@
            [ok |-> FALSE, error |-> "UNIQUE constraint failed: datasets.name",
             rolled_back |-> 0]
       ELSE IF ~r.ok
       THEN [cities |-> r.cities] @@ unchanged @@
            [ok |-> FALSE, error |-> "City name is required but empty/missing",
             rolled_back |-> Len(r.cities) - Len(cities)]
       ELSE [ok |-> TRUE,
             dataset_id |-> dataset_id,
             cities |-> r.cities,
             datasets |-> datasets \cup
                 {[id |-> dataset_id, name |-> dataset_name,
                   total_samples |-> Len(df.rows),
                   enhanced_csv_data |-> to_csv(df),
                   metadata |-> metadata(df)]},
             dataset_samples |-> dataset_samples \cup
                 {[id |-> first_sample + i - 1,
                   dataset_id |-> dataset_id,
                   city_id |-> r.city_ids[i],
                   latitude |-> df.rows[i]["Latitude"],
                   longitude |-> df.rows[i]["Longitude"],
                   hmpi_value |-> df.rows[i]["HMPI"],
                   classification |-> df.rows[i]["Classification"]] :
                  i \in DOMAIN df.rows},
             city_summary |-> update_city_summaries(city_summary, samples, TRUE)]

\* save_dataset(df, dataset_name, ...): what the call does to the tables and
\* what it returns or raises.  The connection's transaction opens with the
\* INSERT into datasets and is committed when the with block is left, rolled
\* back when an exception leaves it; update_city_summaries runs before that,
\* on a second connection, while this one still holds the write lock.
save_dataset(df, dataset_name) ==
    LET unchanged == [cities |-> cities, datasets |-> datasets,
                      dataset_samples |-> dataset_samples,
                      city_summary |-> city_summary]
        dataset_id == next_rowid(datasets)
        first_sample == next_rowid(dataset_samples)
        r == resolve_rows(cities, df.rows, 1)
    IN IF name_taken(dataset_name)
       THEN unchanged @@
            [ok |-> FALSE, error |-> "UNIQUE constraint failed: datasets.name",
             rolled_back |-> 0]
       ELSE IF ~r.ok
       THEN unchanged @@
            [ok |-> FALSE, error |-> "City name is required but empty/missing",
             rolled_back |-> Len(r.cities) - Len(cities)]
       ELSE [ok |-> TRUE,
             dataset_id |-> dataset_id,
             cities |-> r.cities,
             datasets |-> datasets \cup
                 {[id |-> dataset_id, name |-> dataset_name,
                   total_samples |-> Len(df.rows),
                   enhanced_csv_data |-> to_csv(df),
                   metadata |-> metadata(df)]},
             dataset_samples |-> dataset_samples \cup
                 {[id |-> first_sample + i - 1,
                   dataset_id |-> dataset_id,
                   city_id |-> r.city_ids[i],
                   latitude |-> df.rows[i]["Latitude"],
                   longitude |-> df.rows[i]["Longitude"],
                   hmpi_value |-> df.rows[i]["HMPI"],
                   classification |-> df.rows[i]["Classification"]] :
                  i \in DOMAIN df.rows},
             city_summary |-> update_city_summaries(city_summary, samples, TRUE)]

\* save_samples(df, filename): BEGIN IMMEDIATE, the rows, commit, and then the
\* rebuild on a connection of its own.
save_samples(df) ==
    LET r == resolve_rows(cities, df.rows, 1)
        stored == samples \o
            [i \in DOMAIN df.rows |->
                [city_id |-> r.city_ids[i],
                 latitude |-> df.rows[i]["Latitude"],
                 longitude |-> df.rows[i]["Longitude"],
                 hmpi_value |-> df.rows[i]["HMPI"],
                 classification |-> df.rows[i]["Classification"],
                 upload_date |-> now]]
    IN IF ~r.ok
       THEN [ok |-> FALSE, error |-> "City name is required but empty/missing",
             rolled_back |-> Len(r.cities) - Len(cities),
             cities |-> cities, samples |-> samples, city_summary |-> city_summary]
       ELSE [ok |-> TRUE,
             cities |-> r.cities,
             samples |-> stored,
             city_summary |-> update_city_summaries(city_summary, stored, FALSE)]

delete_dataset_mut(dataset_id) ==
    [dataset_samples |-> dataset_samples,
     datasets |-> {d \in datasets : d.id # dataset_id},
     result |-> TRUE]

\* delete_dataset(dataset_id): both DELETEs and the commit.
delete_dataset(dataset_id) ==
    [dataset_samples |-> {s \in dataset_samples : s.dataset_id # dataset_id},
     datasets |-> {d \in datasets : d.id # dataset_id},
     result |-> TRUE]

-----------------------------------------------------------------------------
(* database.py: the read paths                                             *)

RECURSIVE SumOf(_, _)
SumOf(f, S) ==
    IF S = {} THEN 0
    ELSE LET x == CHOOSE y \in S : TRUE IN f[x] + SumOf(f, S \ {x})

\* get_city_data(city_name): the first city whose name contains city_name,
\* letter case ignored, and the statistics of its samples with an index.  With
\* no such city the geocoding fallback gives a view without data, or None.
get_city_data(city_name) ==
    LET hits == {i \in DOMAIN cities : like_match(cities[i].name, city_name)}
        city_id == Min(hits)
        rows == {i \in DOMAIN samples :
                    samples[i].city_id = city_id /\ samples[i].hmpi_value # NULL}
        hmpi_values == [i \in rows |-> samples[i].hmpi_value]
        last == Max({samples[i].upload_date : i \in rows})
        first == Min({i \in rows : samples[i].upload_date = last})
    IN IF hits = {} THEN [in_database |-> FALSE, has_data |-> FALSE]
       ELSE IF rows = {}
       THEN [in_database |-> TRUE, has_data |-> FALSE, city_id |-> city_id,
             city |-> cities[city_id].name,
             city_center |-> [latitude |-> cities[city_id].latitude,
                              longitude |-> cities[city_id].longitude]]
       ELSE [in_database |-> TRUE, has_data |-> TRUE, city_id |-> city_id,
             city |-> cities[city_id].name,
             city_center |-> [latitude |-> cities[city_id].latitude,
                              longitude |-> cities[city_id].longitude],
             statistics |->
                 [total_samples |-> Cardinality(rows),
                  latest_hmpi |-> samples[first].hmpi_value,
                  latest_classification |-> samples[first].classification,
                  hmpi_range |->
                      [min |-> Min(Range(hmpi_values)),
                       max |-> Max(Range(hmpi_values)),
                       average |-> round2(SumOf(hmpi_values, rows), Cardinality(rows))]]]

SimilarLevels == <<"Both cities have similar pollution levels">>

\* The analysis part of compare_cities(city1_name, city2_name).
analysis_mut(city1_data, city2_data) ==
    LET city1_avg == city1_data.statistics.hmpi_range.average
        city2_avg == city2_data.statistics.hmpi_range.average
    IN IF city1_avg <= city2_avg
       THEN [cleaner_city |-> city1_data.city,
             pollution_difference |-> city2_avg - city1_avg]
       ELSE [cleaner_city |-> city2_data.city,
             pollution_difference |-> city1_avg - city2_avg]

analysis(city1_data, city2_data) ==
    LET city1_avg == city1_data.statistics.hmpi_range.average
        city2_avg == city2_data.statistics.hmpi_range.average
    IN IF city1_avg < city2_avg
       THEN [cleaner_city |-> city1_data.city,
             pollution_difference |-> city2_avg - city1_avg]
       ELSE IF city2_avg < city1_avg
       THEN [cleaner_city |-> city2_data.city,
             pollution_difference |-> city1_avg - city2_avg]
       ELSE [cleaner_city |-> SimilarLevels, pollution_difference |-> 0]

compare_cities(city1_name, city2_name) ==
    LET city1_data == get_city_data(city1_name)
        city2_data == get_city_data(city2_name)
    IN IF ~city1_data.has_data THEN [error |-> TRUE, lacking |-> city1_name]
       ELSE IF ~city2_data.has_data THEN [error |-> TRUE, lacking |-> city2_name]
       ELSE [error |-> FALSE,
             city1 |-> city1_data.statistics,
             city2 |-> city2_data.statistics,
             analysis |-> analysis(city1_data, city2_data)]

Limit == 10    \* LIMIT 10

\* The distance_km column: (ABS(c.latitude - ?) + ABS(c.longitude - ?)) * 111,
\* in hundredths of a kilometre.
distance_km(c, lat, lon) == (Abs(c.latitude - lat) + Abs(c.longitude - lon)) * 111

order_by_distance_mut(S, lat, lon) ==
    [k \in 1..Cardinality(S) |->
        CHOOSE i \in S : Cardinality({j \in S : j < i}) = k - 1]

\* ORDER BY distance_km ASC over the groups S (city ids): the ids by distance,
\* groups at one distance in the order of the grouping, that is by id.
order_by_distance(S, lat, lon) ==
    [k \in 1..Cardinality(S) |->
        CHOOSE i \in S :
            Cardinality({j \in S :
                \/ distance_km(cities[j], lat, lon) < distance_km(cities[i], lat, lon)
                \/ /\ distance_km(cities[j], lat, lon) = distance_km(cities[i], lat, lon)
                   /\ j < i}) = k - 1]

\* The WHERE clause of get_nearby_cities on the join of city i with its
\* samples: radius_deg = radius_km / 111, so ABS(d) <= radius_deg is
\* ABS(d) * 111 <= radius_km * 100 with d in hundredths of a degree.
nearby_group(i, city_name, lat, lon, radius_km) ==
    /\ Abs(cities[i].latitude - lat) * 111 <= radius_km * 100
    /\ Abs(cities[i].longitude - lon) * 111 <= radius_km * 100
    /\ \E k \in DOMAIN samples : samples[k].city_id = i /\ samples[k].hmpi_value # NULL
    /\ LOWER(cities[i].name) # LOWER(city_name)

\* One element of nearby_cities, built from the group of city i.
nearby_entry(i, lat, lon) ==
    LET rows == {k \in DOMAIN samples :
                    samples[k].city_id = i /\ samples[k].hmpi_value # NULL}
        hmpi_values == [k \in rows |-> samples[k].hmpi_value]
    IN [city |-> cities[i].name,
        state |-> cities[i].state,
        coordinates |-> [latitude |-> cities[i].latitude,
                         longitude |-> cities[i].longitude],
        distance_km |-> round2(distance_km(cities[i], lat, lon), 10),
        water_quality |->
            [sample_count |-> Cardinality(rows),
             average_hmpi |-> round2(SumOf(hmpi_values, rows), Cardinality(rows)),
             hmpi_range |-> [min |-> Min(Range(hmpi_values)),
                             max |-> Max(Range(hmpi_values))],
             average_classification |->
                 classify(SumOf(hmpi_values, rows), Cardinality(rows))]]

\* get_nearby_cities(city_name, radius_km); found is FALSE for the None it
\* returns when the target has no city_center (no stored city matches).
get_nearby_cities(city_name, radius_km) ==
    LET target_city == get_city_data(city_name)
        target_lat == target_city.city_center.latitude
        target_lon == target_city.city_center.longitude
        groups == {i \in DOMAIN cities :
                      nearby_group(i, city_name, target_lat, target_lon, radius_km)}
        ordered == order_by_distance(groups, target_lat, target_lon)
        kept == SubSeq(ordered, 1, Min({Len(ordered), Limit}))
    IN IF ~target_city.in_database THEN [found |-> FALSE]
       ELSE [found |-> TRUE,
             target_city |-> target_city.city,
             search_radius_km |-> radius_km,
             found_cities |-> Len(kept),
             nearby_cities |-> [k \in DOMAIN kept |->
                                   nearby_entry(kept[k], target_lat, target_lon)]]

\* get_stats(): the counts over the tables of the dataset path.
get_stats ==
    [total_cities |-> Len(cities),
     total_samples |-> Cardinality(dataset_samples),
     cities_with_data |->
         Cardinality({x.city_id : x \in {y \in dataset_samples : y.hmpi_value # NULL}}),
     total_datasets |-> Cardinality(datasets)]

\* sorted(hmpi_values) for the samples S, each with a non-null index.
RECURSIVE sorted(_)
sorted(S) ==
    IF S = {} THEN <<>>
    ELSE LET x == CHOOSE y \in S : \A z \in S : y.hmpi_value <= z.hmpi_value
         IN <<x.hmpi_value>> \o sorted(S \ {x})

RECURSIVE sum(_)
sum(v) == IF v = <<>> THEN 0 ELSE Head(v) + sum(Tail(v))

\* The statistics of get_dataset_report over the dataset's samples with a
\* non-null index; an empty dict when there is none.
report_statistics(dataset_id) ==
    LET hmpi_values ==
            sorted({x \in dataset_samples : x.dataset_id = dataset_id /\ x.hmpi_value # NULL})
        n == Len(hmpi_values)
    IN IF n = 0 THEN [empty |-> TRUE]
       ELSE [empty |-> FALSE,
             min |-> hmpi_values[1],
             max |-> hmpi_values[n],
             average |-> round2(sum(hmpi_values), n),
             median |-> hmpi_values[(n \div 2) + 1]]

\* np.median of an ascending sequence, as a fraction: the middle value, or
\* the mean of the two middle values.
np_median(v) ==
    LET n == Len(v)
    IN IF n % 2 = 1 THEN [num |-> 2 * v[(n + 1) \div 2], den |-> 2]
       ELSE [num |-> v[n \div 2] + v[(n \div 2) + 1], den |-> 2]

\* get_summary_stats(df) on a processed frame.
get_summary_stats(df) ==
    LET valid_data == {[id |-> i, hmpi_value |-> df.rows[i]["HMPI"]] :
                          i \in {j \in DOMAIN df.rows : df.rows[j]["HMPI"] # NULL}}
        hmpi_values == sorted(valid_data)
    IN IF valid_data = {} THEN [error |-> "No valid HMPI data"]
       ELSE [total_samples |-> Len(df.rows),
             valid_samples |-> Cardinality(valid_data),
             hmpi_range |-> [min |-> hmpi_values[1],
                             max |-> hmpi_values[Len(hmpi_values)],
                             median |-> np_median(hmpi_values)]]

get_dataset_report_mut(dataset_id) ==
    IF ~ \E d \in datasets : d.id = dataset_id THEN [found |-> FALSE]
    ELSE LET d == CHOOSE x \in datasets : x.id = Max({y.id : y \in datasets})
         IN [found |-> TRUE,
             dataset_info |-> [id |-> d.id, name |-> d.name,
                               total_samples |-> d.total_samples],
             statistics |-> report_statistics(d.id),
             enhanced_csv |-> d.enhanced_csv_data]

\* get_dataset_report(dataset_id): None for an unknown id.
get_dataset_report(dataset_id) ==
    IF ~ \E d \in datasets : d.id = dataset_id THEN [found |-> FALSE]
    ELSE LET d == CHOOSE x \in datasets : x.id = dataset_id
         IN [found |-> TRUE,
             dataset_info |-> [id |-> d.id, name |-> d.name,
                               total_samples |-> d.total_samples],
             statistics |-> report_statistics(d.id),
             enhanced_csv |-> d.enhanced_csv_data]

\* routes.download_dataset_csv: 404, or the stored text streamed as it is.
download_dataset_csv(dataset_id) ==
    LET report == get_dataset_report(dataset_id)
    IN IF ~report.found THEN [found |-> FALSE]
       ELSE [found |-> TRUE, csv_content |-> report.enhanced_csv]

-----------------------------------------------------------------------------
(* The frames the model feeds to the handlers.                             *)

BaseColumns == <<"Latitude", "Longitude", "City">>

\* A frame with the base columns followed by the metal columns of metals, in
\* the order of MetalOrder, and the given rows.
Frame(metals, rows) ==
    LET Present(m) == m \in metals
    IN [columns |-> BaseColumns \o SelectSeq(MetalOrder, Present), rows |-> rows]

RawRow(lat, lon, city, cells) ==
    [c \in Range(BaseColumns) \cup DOMAIN cells |->
        IF c = "Latitude" THEN lat
        ELSE IF c = "Longitude" THEN lon
        ELSE IF c = "City" THEN city
        ELSE cells[c]]

\* Cells of a metal column: absent, unparseable, infinite, overflowing,
\* negative, zero, and values on both sides of each classification threshold.
HmpiCells ==
    {NaNCell, TextCell, InfCell, HugeCell} \cup
    {Num(v) : v \in {-5, 0, 50000, 99996, 100000, 199996, 250000, 299996, 300000}}

ModelMetals == {MetalOrder[i] : i \in 1..MaxMetals}

HmpiFrames ==
    {Frame(ms, <<RawRow(1290, 7750, <<"A", "b">>, cells)>>) :
        ms \in SUBSET ModelMetals, cells \in UNION {[ms -> HmpiCells] : ms \in SUBSET ModelMetals}}

EmptyFrame == Frame({}, <<>>)

Idle == [op |-> "none", ok |-> TRUE]

\* The server processes that share the database file, and a process with no
\* write call in progress: pc is the call's position, request its arguments,
\* main and rebuild tell whether the call's own connection, and the
\* connection update_city_summaries opens for it, hold the write lock.
Procs == {1, 2}

Quiet == [pc |-> "idle", request |-> [kind |-> "none"], main |-> FALSE, rebuild |-> FALSE]

NoWriters == [p \in Procs |-> Quiet]

-----------------------------------------------------------------------------
(* SpecHmpi: process_csv_data applied to one-row frames.                    *)

InitHmpi ==
    /\ cities = <<>>
    /\ samples = <<>>
    /\ city_summary = {}
    /\ datasets = {}
    /\ dataset_samples = {}
    /\ now = 0
    /\ frame \in {f \in HmpiFrames : DOMAIN f.rows[1] = Range(f.columns)}
    /\ ret = Idle
    /\ writers = NoWriters

\* process_csv_data(df) on the frame read from the upload.
ProcessCsvData ==
    /\ ret.op = "none"
    /\ ret' = [op |-> "process_csv_data"] @@ process_csv_data(frame)
    /\ UNCHANGED <<cities, samples, city_summary, datasets, dataset_samples, now, frame, writers>>

\* The next upload is read.
ReadCsv ==
    /\ ret.op = "process_csv_data"
    /\ frame' \in {f \in HmpiFrames : DOMAIN f.rows[1] = Range(f.columns)}
    /\ ret' = Idle
    /\ UNCHANGED <<cities, samples, city_summary, datasets, dataset_samples, now, writers>>

NextHmpi == ProcessCsvData \/ ReadCsv

SpecHmpi == InitHmpi /\ [][NextHmpi]_vars

\* A raw cell that holds a valid value greater than 0: it parses, is finite
\* and positive.
ValidPositive(x) == (x.k = "num" /\ x.v > 0) \/ x.k = "huge"

\* A valid value greater than 0 whose sub-index value / standard * 100 is finite.
ValidPositiveFinite(x) == x.k = "num" /\ x.v > 0

Processed == ret.op = "process_csv_data" /\ ret.ok

Contributing(df, row) == {m \in available_metals(df) : ValidPositiveFinite(row[m])}

\* The weighted mean of the sub-indices v / standard (in hundredths) with the
\* weights 1 / standard over the metals C, as the fraction MeanNum / MeanDen;
\* L is a common multiple of the standards.
RECURSIVE MeanNum(_, _, _)
MeanNum(row, C, L) ==
    IF C = {} THEN 0
    ELSE LET m == CHOOSE x \in C : TRUE
         IN row[m].v * (L \div STANDARDS[m]) * (L \div STANDARDS[m]) + MeanNum(row, C \ {m}, L)

RECURSIVE MeanDen(_, _)
MeanDen(C, L) ==
    IF C = {} THEN 0
    ELSE LET m == CHOOSE x \in C : TRUE
         IN L * (L \div STANDARDS[m]) + MeanDen(C \ {m}, L)

LabelOfStored(h) ==
    IF h < 10000 THEN "Low Pollution"
    ELSE IF h < 20000 THEN "Moderate Pollution"
    ELSE IF h < 30000 THEN "High Pollution"
    ELSE "Very High Pollution"

\* C9: for every output row with a non-null HMPI, the classification is the
\* label the half-open thresholds give for the stored two-decimal HMPI.
C9_LabelMatchesStoredHmpi ==
    Processed =>
        \A i \in DOMAIN ret.df.rows :
            ret.df.rows[i]["HMPI"] # NULL =>
                ret.df.rows[i]["Classification"] = LabelOfStored(ret.df.rows[i]["HMPI"])

-----------------------------------------------------------------------------
(* The handlers as actions.                                                *)

\* routes.upload_csv: process_csv_data, save_dataset, and the answer.
UploadCsv(df, dataset_name) ==
    /\ Cardinality(datasets) < MaxDatasets
    /\ \E processed \in {process_csv_data(df)} :
          IF ~processed.ok
          THEN /\ ret' = [op |-> "upload_csv", ok |-> FALSE, error |-> processed.error,
                          rolled_back |-> 0]
               /\ UNCHANGED store
          ELSE \E saved \in {save_dataset(processed.df, dataset_name)} :
               /\ cities' = saved.cities
               /\ datasets' = saved.datasets
               /\ dataset_samples' = saved.dataset_samples
               /\ city_summary' = saved.city_summary
               /\ ret' = IF saved.ok
                         THEN [op |-> "upload_csv", ok |-> TRUE,
                               dataset_id |-> saved.dataset_id]
                         ELSE [op |-> "upload_csv", ok |-> FALSE, error |-> saved.error,
                               rolled_back |-> saved.rolled_back]
               /\ UNCHANGED samples
    /\ UNCHANGED <<now, frame, writers>>

\* db.save_samples on a processed frame, while table samples has room.
SaveSamplesUpTo(df, room) ==
    /\ Len(samples) + Len(df.rows) <= room
    /\ \E processed \in {process_csv_data(df)} :
          /\ processed.ok
          /\ \E saved \in {save_samples(processed.df)} :
               /\ cities' = saved.cities
               /\ samples' = saved.samples
               /\ city_summary' = saved.city_summary
               /\ ret' = IF saved.ok THEN [op |-> "save_samples", ok |-> TRUE]
                         ELSE [op |-> "save_samples", ok |-> FALSE, error |-> saved.error,
                               rolled_back |-> saved.rolled_back]
    /\ UNCHANGED <<datasets, dataset_samples, now, frame, writers>>

SaveSamples(df) == SaveSamplesUpTo(df, MaxSamples)

\* db.update_city_summaries called with no write in progress.
UpdateCitySummaries ==
    /\ city_summary' = update_city_summaries(city_summary, samples, FALSE)
    /\ ret' = [op |-> "update_city_summaries", ok |-> TRUE,
               again |-> ret.op = "update_city_summaries"]
    /\ UNCHANGED <<cities, samples, datasets, dataset_samples, now, frame, writers>>

\* routes.delete_dataset.
DeleteDataset(dataset_id) ==
    /\ LET deleted == delete_dataset(dataset_id)
       IN /\ datasets' = deleted.datasets
          /\ dataset_samples' = deleted.dataset_samples
          /\ ret' = [op |-> "delete_dataset", ok |-> deleted.result,
                     dataset_id |-> dataset_id]
    /\ UNCHANGED <<cities, samples, city_summary, now, frame, writers>>

\* A second of wall-clock time passes.
Tick ==
    /\ now < MaxClock
    /\ now' = now + 1
    /\ UNCHANGED <<cities, samples, city_summary, datasets, dataset_samples, frame, ret, writers>>

Init ==
    /\ cities = <<>>
    /\ samples = <<>>
    /\ city_summary = {}
    /\ datasets = {}
    /\ dataset_samples = {}
    /\ now = 0
    /\ frame = EmptyFrame
    /\ ret = Idle
    /\ writers = NoWriters

\* Frames of at most n rows over a set of rows, each with the column Lead.
Batches(rows, n) ==
    {Frame({"Lead"}, b) : b \in UNION {[1..k -> rows] : k \in 0..n}}

\* A labelled point, an unlabelled point inside its box, and a blank-labelled
\* point far from both.
StoreRows ==
    {RawRow(1290, 7750, <<"A", "b">>, [Lead |-> Num(50000)]),
     RawRow(1293, 7752, NaNLabel, [Lead |-> NaNCell]),
     RawRow(1310, 7780, <<" ">>, [Lead |-> Num(250000)])}

DatasetNames == {"d1", "d2"}

DatasetIds == 1..(MaxDatasets + 1)

\* Spec: the dataset path of the server, as routes.py drives it.
Next ==
    \/ \E df \in Batches(StoreRows, MaxRows), n \in DatasetNames : UploadCsv(df, n)
    \/ UpdateCitySummaries
    \/ \E id \in DatasetIds : DeleteDataset(id)

Spec == Init /\ [][Next]_vars

\* SpecCities: both write paths that create cities.  save_samples receives two
\* labelled points that share a box and a labelled point far from them;
\* save_dataset receives the second of those points, an unlabelled point in
\* its box that is outside the box of the first, and a labelled point far from
\* all the others.
CityRows ==
    {RawRow(1290, 7750, <<"A", "b">>, [Lead |-> Num(50000)]),
     RawRow(1293, 7752, <<"b">>, [Lead |-> Num(50000)]),
     RawRow(1310, 7780, <<"B">>, [Lead |-> Num(50000)])}

CityUploadRows ==
    {RawRow(1293, 7752, <<"b">>, [Lead |-> Num(50000)]),
     RawRow(1296, 7750, NaNLabel, [Lead |-> Num(50000)]),
     RawRow(1330, 7810, <<"c">>, [Lead |-> Num(50000)])}

NextCities ==
    \/ \E df \in Batches(CityUploadRows, MaxRows) : UploadCsv(df, "d1")
    \/ \E df \in Batches(CityRows, MaxRows) : SaveSamples(df)
    \/ \E id \in DatasetIds : DeleteDataset(id)

SpecCities == Init /\ [][NextCities]_vars

\* SpecSamples: the samples table, its summary and the queries on them.
SampleRows ==
    {RawRow(1290, 7750, <<"A", "b">>, [Lead |-> Num(50000)]),
     RawRow(1293, 7752, <<"A", "b">>, [Lead |-> Num(250000)]),
     RawRow(1290, 7750, <<"A", "b">>, [Lead |-> NaNCell]),
     RawRow(1310, 7780, <<"b">>, [Lead |-> Num(50010)]),
     RawRow(1310, 7780, <<"b">>, [Lead |-> Num(50000)])}

NextSamples ==
    \/ \E df \in Batches(SampleRows, MaxRows) : SaveSamples(df)
    \/ UpdateCitySummaries
    \/ Tick

SpecSamples == Init /\ [][NextSamples]_vars

\* SpecLock: the write calls of two server processes on one database file,
\* in the steps at which sqlite's write lock is requested, granted, refused
\* after the busy timeout, and released.  A transaction's writes become
\* visible when it commits.
StatusOk == 200
BadRequest == 400
ServerError == 500

LockRow == RawRow(1290, 7750, <<"a">>, [Lead |-> Num(250000)])

UnlabelledRow == RawRow(1330, 7810, NaNLabel, [Lead |-> Num(50000)])

\* The calls the handlers make on the database, with the frames as
\* process_csv_data returned them.
LockRequests ==
    {[kind |-> "save_dataset", df |-> process_csv_data(Frame({"Lead"}, rows)).df,
      name |-> "d1"] :
        rows \in {<<LockRow>>, <<LockRow, UnlabelledRow>>}} \cup
    {[kind |-> "save_samples", df |-> process_csv_data(Frame({"Lead"}, <<LockRow>>)).df],
     [kind |-> "delete_dataset", dataset_id |-> 1]}

\* The connections that are inside a write transaction.
holders == {h \in Procs \X {"main", "rebuild"} : writers[h[1]][h[2]]}

lock_free_mut == TRUE

\* sqlite grants the write lock to a connection when no other holds it.
lock_free == holders = {}

\* save_samples calls that have not committed their rows yet.
PendingSamples ==
    {q \in Procs : /\ writers[q].request.kind = "save_samples"
                   /\ writers[q].pc \in {"waiting", "writing"}}

\* A handler of process p is entered: it opens its connection and asks for
\* the write lock with its first statement.
StartWrite(p, request) ==
    /\ writers[p].pc = "idle"
    /\ request.kind = "save_samples" =>
           Len(samples) + Cardinality(PendingSamples) + Len(request.df.rows) <= MaxLockSamples
    /\ writers' = [writers EXCEPT ![p] = [Quiet EXCEPT !.pc = "waiting", !.request = request]]
    /\ UNCHANGED <<cities, samples, city_summary, datasets, dataset_samples, now, frame, ret>>

\* The lock is granted within the timeout.
Acquire(p) ==
    /\ writers[p].pc = "waiting"
    /\ lock_free
    /\ writers' = [writers EXCEPT ![p].pc = "writing", ![p].main = TRUE]
    /\ UNCHANGED <<cities, samples, city_summary, datasets, dataset_samples, now, frame, ret>>

\* The lock was held by another connection for the whole timeout: sqlite3
\* raises OperationalError('database is locked') and each handler maps it in
\* its own way.
Busy(p) ==
    /\ writers[p].pc = "waiting"
    /\ ~lock_free
    /\ ret' = IF writers[p].request.kind = "save_dataset"
              THEN [op |-> "upload_csv", ok |-> FALSE,
                    error |-> "Error saving dataset: database is locked",
                    rolled_back |-> 0, status |-> BadRequest]
              ELSE IF writers[p].request.kind = "save_samples"
              THEN [op |-> "save_samples", ok |-> FALSE,
                    error |-> "Database is currently busy. Please try again in a moment.",
                    rolled_back |-> 0]
              ELSE [op |-> "delete_dataset", ok |-> FALSE,
                    error |-> "database is locked", status |-> ServerError]
    /\ writers' = [writers EXCEPT ![p] = Quiet]
    /\ UNCHANGED <<cities, samples, city_summary, datasets, dataset_samples, now, frame>>

\* The statements of the transaction run.  save_dataset goes on to call
\* update_city_summaries with its transaction open, or is rolled back by an
\* exception; save_samples commits its rows, or is rolled back;
\* delete_dataset commits.
Write(p) ==
    /\ writers[p].pc = "writing"
    /\ LET request == writers[p].request
       IN IF request.kind = "save_dataset"
          THEN \E saved \in {save_dataset(request.df, request.name)} :
                   IF saved.ok
                   THEN /\ writers' = [writers EXCEPT ![p].pc = "nested"]
                        /\ UNCHANGED <<cities, samples, city_summary, datasets,
                                       dataset_samples, ret>>
                   ELSE /\ writers' = [writers EXCEPT ![p] = Quiet]
                        /\ ret' = [op |-> "upload_csv", ok |-> FALSE, error |-> saved.error,
                                   rolled_back |-> saved.rolled_back, status |-> BadRequest]
                        /\ UNCHANGED <<cities, samples, city_summary, datasets,
                                       dataset_samples>>
          ELSE IF request.kind = "save_samples"
          THEN \E saved \in {save_samples(request.df)} :
                   IF saved.ok
                   THEN /\ cities' = saved.cities
                        /\ samples' = saved.samples
                        /\ writers' = [writers EXCEPT ![p].pc = "after", ![p].main = FALSE]
                        /\ UNCHANGED <<city_summary, datasets, dataset_samples, ret>>
                   ELSE /\ writers' = [writers EXCEPT ![p] = Quiet]
                        /\ ret' = [op |-> "save_samples", ok |-> FALSE, error |-> saved.error,
                                   rolled_back |-> saved.rolled_back]
                        /\ UNCHANGED <<cities, samples, city_summary, datasets,
                                       dataset_samples>>
          ELSE LET deleted == delete_dataset(request.dataset_id)
               IN /\ datasets' = deleted.datasets
                  /\ dataset_samples' = deleted.dataset_samples
                  /\ writers' = [writers EXCEPT ![p] = Quiet]
                  /\ ret' = [op |-> "delete_dataset", ok |-> deleted.result,
                             dataset_id |-> request.dataset_id, status |-> StatusOk]
                  /\ UNCHANGED <<cities, samples, city_summary>>
    /\ UNCHANGED <<now, frame>>

\* update_city_summaries, called by p, is granted the lock on its connection.
RebuildAcquire(p) ==
    /\ writers[p].pc \in {"nested", "after"}
    /\ lock_free
    /\ writers' = [writers EXCEPT ![p].pc = "rebuilding", ![p].rebuild = TRUE]
    /\ UNCHANGED <<cities, samples, city_summary, datasets, dataset_samples, now, frame, ret>>

\* update_city_summaries, called by p, finds the lock held for the whole
\* timeout, swallows the error and returns.
RebuildBusy(p) ==
    /\ writers[p].pc \in {"nested", "after"}
    /\ ~lock_free
    /\ city_summary' = update_city_summaries(city_summary, samples, TRUE)
    /\ IF writers[p].request.kind = "save_dataset"
       THEN /\ writers' = [writers EXCEPT ![p].pc = "committing"]
            /\ UNCHANGED ret
       ELSE /\ writers' = [writers EXCEPT ![p] = Quiet]
            /\ ret' = [op |-> "save_samples", ok |-> TRUE, rebuilt |-> FALSE]
    /\ UNCHANGED <<cities, samples, datasets, dataset_samples, now, frame>>

\* update_city_summaries, called by p, rebuilds the table and commits.
RebuildCommit(p) ==
    /\ writers[p].pc = "rebuilding"
    /\ city_summary' = update_city_summaries(city_summary, samples, FALSE)
    /\ IF writers[p].request.kind = "save_dataset"
       THEN /\ writers' = [writers EXCEPT ![p].pc = "committing", ![p].rebuild = FALSE]
            /\ UNCHANGED ret
       ELSE /\ writers' = [writers EXCEPT ![p] = Quiet]
            /\ ret' = [op |-> "save_samples", ok |-> TRUE, rebuilt |-> TRUE]
    /\ UNCHANGED <<cities, samples, datasets, dataset_samples, now, frame>>

\* save_dataset returns: the with block commits its transaction.
Commit(p) ==
    /\ writers[p].pc = "committing"
    /\ \E saved \in {save_dataset(writers[p].request.df, writers[p].request.name)} :
           /\ cities' = saved.cities
           /\ datasets' = saved.datasets
           /\ dataset_samples' = saved.dataset_samples
           /\ ret' = [op |-> "upload_csv", ok |-> TRUE, dataset_id |-> saved.dataset_id,
                      status |-> StatusOk]
    /\ writers' = [writers EXCEPT ![p] = Quiet]
    /\ UNCHANGED <<samples, city_summary, now, frame>>

\* What process p does once its handler has been entered.
Step(p) ==
    \/ Acquire(p)
    \/ Busy(p)
    \/ Write(p)
    \/ RebuildAcquire(p)
    \/ RebuildBusy(p)
    \/ RebuildCommit(p)
    \/ Commit(p)

NextLock ==
    \/ \E p \in Procs, request \in LockRequests : StartWrite(p, request)
    \/ \E p \in Procs : Step(p)

SpecLock == Init /\ [][NextLock]_vars

\* A handler that has been entered keeps running, and sqlite answers a
\* request for the lock by the end of the timeout at the latest.
SpecLockFair == SpecLock /\ \A p \in Procs : WF_vars(Step(p))

\* SpecReport: datasets of points of one city with the indices 50.0, 100.0
\* and 250.0 and without an index, and their reports.
ReportRows ==
    {RawRow(1290, 7750, <<"a">>, [Lead |-> cell]) :
        cell \in {Num(50000), Num(99996), Num(250000), NaNCell}}

NextReport ==
    \/ \E df \in Batches(ReportRows, MaxRows), n \in DatasetNames : UploadCsv(df, n)
    \/ \E id \in DatasetIds : DeleteDataset(id)

SpecReport == Init /\ [][NextReport]_vars

\* SpecFind: find_or_create_city in two processes, next to dataset writes.
\* The SELECT runs outside any transaction; the INSERT opens one, which the
\* with block commits on return.  The dataset writes of this specification
\* are single steps, so the write lock is free between the steps.
FindPoints == {<<1290, 7750>>, <<1293, 7752>>}

\* What the reverse geocoding gives: nothing or an error, or an address.
GeocodedPlaces ==
    {[name |-> <<"Unknown City">>, state |-> "Unknown State", country |-> "Unknown Country"],
     [name |-> <<"g">>, state |-> "Karnataka", country |-> "India"]}

FindRows == {RawRow(1293, 7752, <<"b">>, [Lead |-> Num(50000)])}

\* find_or_create_city calls that may still insert a city.
PendingFinds == {q \in Procs : writers[q].pc = "geocoding"}

\* find_or_create_city(lat, lon) up to the result of its SELECT: the id of a
\* city within the box is returned, or the call goes on to the geocoder.
FindSelect(p, lat, lon) ==
    /\ writers[p].pc = "idle"
    /\ Len(cities) + Cardinality(PendingFinds) < MaxFindCities
    /\ LET result == nearby_city(cities, lat, lon)
       IN IF result # 0
          THEN /\ ret' = [op |-> "find_or_create_city", ok |-> TRUE, city_id |-> result,
                          created |-> FALSE]
               /\ UNCHANGED writers
          ELSE /\ writers' = [writers EXCEPT ![p] =
                                 [Quiet EXCEPT !.pc = "geocoding",
                                               !.request = [kind |-> "find_or_create_city",
                                                            lat |-> lat, lon |-> lon]]]
               /\ UNCHANGED ret
    /\ UNCHANGED <<cities, samples, city_summary, datasets, dataset_samples, now, frame>>

\* The geocoder has answered: the city is inserted and its rowid returned.
FindInsert(p, place) ==
    /\ writers[p].pc = "geocoding"
    /\ cities' = Append(cities, [name |-> place.name, state |-> place.state,
                                 country |-> place.country,
                                 latitude |-> writers[p].request.lat,
                                 longitude |-> writers[p].request.lon])
    /\ ret' = [op |-> "find_or_create_city", ok |-> TRUE, city_id |-> Len(cities) + 1,
               created |-> TRUE]
    /\ writers' = [writers EXCEPT ![p] = Quiet]
    /\ UNCHANGED <<samples, city_summary, datasets, dataset_samples, now, frame>>

NextFind ==
    \/ \E p \in Procs, point \in FindPoints : FindSelect(p, point[1], point[2])
    \/ \E p \in Procs, place \in GeocodedPlaces : FindInsert(p, place)
    \/ \E df \in Batches(FindRows, MaxRows) : UploadCsv(df, "d1")
    \/ \E id \in DatasetIds : DeleteDataset(id)

SpecFind == Init /\ [][NextFind]_vars

\* SpecResolve: dataset writes over the points (12.90, 77.50) and
\* (12.93, 77.52), which share a box, (13.10, 77.80), which is outside it in
\* both axes, (12.92, 77.80), which is outside it in one axis, and an
\* unlabelled point in the box of the second point but not of the first.
ResolveRows ==
    {RawRow(1290, 7750, <<"a">>, [Lead |-> Num(50000)]),
     RawRow(1293, 7752, <<"b">>, [Lead |-> Num(50000)]),
     RawRow(1310, 7780, <<"c">>, [Lead |-> Num(50000)]),
     RawRow(1292, 7780, <<"d">>, [Lead |-> Num(50000)]),
     RawRow(1297, 7750, NaNLabel, [Lead |-> Num(50000)])}

NextResolve ==
    \/ \E df \in Batches(ResolveRows, MaxRows) : UploadCsv(df, "d1")
    \/ \E id \in DatasetIds : DeleteDataset(id)

SpecResolve == Init /\ [][NextResolve]_vars

\* SpecValidate: uploads of one-row frames with any subset of the required
\* columns, of the first and the last recognized metal and of a column that is
\* no recognized metal.
ValidationColumns == <<"Latitude", "Longitude", "City", "Lead", "Thallium", "Gold">>

ValidationFrames ==
    {[columns |-> SelectSeq(ValidationColumns, LAMBDA c : c \in cs),
      rows |-> <<[c \in cs |->
                    IF c = "Latitude" THEN 1290
                    ELSE IF c = "Longitude" THEN 7750
                    ELSE IF c = "City" THEN <<"A", "b">>
                    ELSE Num(50000)]>>] :
        cs \in SUBSET Range(ValidationColumns)}

NextValidate ==
    \/ \E df \in ValidationFrames, n \in DatasetNames : UploadCsv(df, n)
    \/ \E id \in DatasetIds : DeleteDataset(id)

SpecValidate == Init /\ [][NextValidate]_vars

\* SpecNearby: a target city and up to MaxNearby - 1 cities around it, each
\* saved as one sample with or without an index.  The n-th saved point lies
\* 0.1 * ((n - 1) * 5 mod 13) degrees north of the target, every second one
\* also 0.1 degrees east, so that the order of insertion is not the order
\* of distance.
CityLetters == <<"d", "e", "f", "g", "h", "i", "j", "k", "l", "m", "n", "o", "p">>

NearbyRows(n) ==
    LET lat == 1290 + 10 * (((n - 1) * 5) % 13)
        lon == 7750 + (IF n % 2 = 0 THEN 10 ELSE 0)
        city == IF n = 1 THEN <<"t">> ELSE <<"c", CityLetters[n - 1]>>
    IN {RawRow(lat, lon, city, [Lead |-> cell]) : cell \in {Num(50000), NaNCell}}

NextNearby ==
    \E row \in NearbyRows(Len(samples) + 1) :
        SaveSamplesUpTo(Frame({"Lead"}, <<row>>), MaxNearby)

SpecNearby == Init /\ [][NextNearby]_vars

-----------------------------------------------------------------------------
(* Claims on the store.                                                    *)

\* C1: after any sequence of save_dataset and save_samples calls, successful
\* or failed, no two stored cities have centers whose latitudes differ by less
\* than 0.05 and whose longitudes differ by less than 0.05.
C1_NoTwoCitiesInOneBox ==
    \A i, j \in DOMAIN cities :
        i # j =>
            ~ (/\ Abs(cities[i].latitude - cities[j].latitude) < Tol
               /\ Abs(cities[i].longitude - cities[j].longitude) < Tol)

\* C1 witness: two cities are stored, a sample has collapsed into a city with
\* another center, and the last save failed after it had inserted a city.
C1_Witness ==
    /\ Len(cities) >= 2
    /\ \E i \in DOMAIN samples : samples[i].latitude # cities[samples[i].city_id].latitude
    /\ ret.op \in {"upload_csv", "save_samples"}
    /\ ~ret.ok
    /\ ret.rolled_back > 0

\* A row of the batch that, at its turn in the loop, has no usable label and no
\* city within its box, neither stored nor inserted for an earlier row.
Unresolvable(df) ==
    \E i \in DOMAIN df.rows :
        LET before == resolve_rows(cities, SubSeq(df.rows, 1, i - 1), 1)
        IN /\ before.ok
           /\ df.rows[i]["City"] = NaNLabel \/ strip(df.rows[i]["City"]) = <<>>
           /\ \A k \in DOMAIN before.cities :
                  \/ Abs(before.cities[k].latitude - df.rows[i]["Latitude"]) >= Tol
                  \/ Abs(before.cities[k].longitude - df.rows[i]["Longitude"]) >= Tol

\* C2: if a row of the batch has a missing or blank city label and no city
\* within the 0.05 box when it is resolved, the upload fails and cities,
\* datasets, dataset samples, samples and summary are as before the call.
C2_AbortLeavesStoreUnchanged ==
    [][ret'.op = "upload_csv" =>
           \A df \in Batches(StoreRows, MaxRows), n \in DatasetNames :
               (Unresolvable(df) /\ UploadCsv(df, n)) => (~ret'.ok /\ store' = store)]_vars

\* C2 witness: an upload failed on a row without a label after the transaction
\* had inserted a city for an earlier row, while another dataset is stored.
C2_Witness ==
    /\ ret.op = "upload_csv"
    /\ ~ret.ok
    /\ ret.error = "City name is required but empty/missing"
    /\ ret.rolled_back > 0
    /\ datasets # {}

\* The samples with an index that dataset id contributed to city c.
Contributed(id, c) ==
    {x \in dataset_samples : x.dataset_id = id /\ x.city_id = c /\ x.hmpi_value # NULL}

\* C3: once an upload has returned successfully (its dataset is stored) and
\* no write is in progress, city_summary holds an entry for every city to
\* which the dataset contributed a sample with an index, and the entry's
\* sample count includes those samples.
C3_SummaryCoversSavedDataset ==
    \A d \in datasets, c \in DOMAIN cities :
        Contributed(d.id, c) # {} =>
            \E e \in city_summary :
                /\ e.city_id = c
                /\ e.total_samples >= Cardinality(Contributed(d.id, c))

\* C4: after an upload has stored a row with an index that resolved to city c,
\* get_city_data with the name of c returns the has-data view, and its sample
\* count and its minimum and maximum reflect that row.
C4_CityViewReflectsSavedRow ==
    (ret.op = "upload_csv" /\ ret.ok) =>
        \A x \in dataset_samples :
            (x.dataset_id = ret.dataset_id /\ x.hmpi_value # NULL) =>
                LET view == get_city_data(cities[x.city_id].name)
                IN /\ view.has_data
                   /\ view.statistics.total_samples >= 1
                   /\ view.statistics.hmpi_range.min <= x.hmpi_value
                   /\ view.statistics.hmpi_range.max >= x.hmpi_value

\* C5: a download returns the payload serialized at upload (the original
\* columns, then HMPI and Classification, one line per row of the batch, the
\* HMPI field being the text of the computed value), and no later upload,
\* deletion of another dataset or rebuild changes the payload of a dataset.
C5_DownloadIsUploadPayload ==
    [][/\ \A d \in datasets :
              (\E e \in datasets' : e.id = d.id) =>
                  download_dataset_csv(d.id)' = download_dataset_csv(d.id)
       /\ \A id \in DatasetIds, df \in Batches(StoreRows, MaxRows), n \in DatasetNames :
              (ret'.op = "upload_csv" /\ ret'.ok /\ ret'.dataset_id = id /\ UploadCsv(df, n)) =>
                  LET got == download_dataset_csv(id)'
                      computed == process_csv_data(df).df.rows
                  IN /\ got.found
                     /\ Len(got.csv_content) = Len(df.rows) + 1
                     /\ got.csv_content[1] = df.columns \o <<"HMPI", "Classification">>
                     /\ \A i \in DOMAIN df.rows :
                            /\ got.csv_content[i + 1][Len(df.columns) + 1] =
                                   (IF computed[i]["HMPI"] = NULL THEN ""
                                    ELSE ToString(computed[i]["HMPI"]))
                            /\ got.csv_content[i + 1][Len(df.columns) + 2] =
                                   computed[i]["Classification"]]_vars

\* C5 witness: two datasets with different payloads are stored, the older one
\* after the upload of the other, and the last call was a rebuild.
C5_Witness ==
    /\ ret.op = "update_city_summaries"
    /\ \E d, e \in datasets :
           /\ d.id < e.id
           /\ download_dataset_csv(d.id).csv_content # download_dataset_csv(e.id).csv_content
           /\ Len(download_dataset_csv(d.id).csv_content) = MaxRows + 1

\* C13: an upload under the name of a stored dataset fails with the error of
\* the uniqueness conflict, and datasets (the one of that name included),
\* dataset samples, cities, samples and summary are as before the call.
C13_DuplicateNameRejected ==
    [][\A n \in DatasetNames :
           (ret'.op = "upload_csv" /\ \E d \in datasets : d.name = n) =>
               \A df \in Batches(StoreRows, MaxRows) :
                   UploadCsv(df, n) =>
                       /\ ~ret'.ok
                       /\ ret'.error = "UNIQUE constraint failed: datasets.name"
                       /\ store' = store]_vars

\* C13 witness: an upload was refused for its name while a dataset with samples
\* is stored.
C13_Witness ==
    /\ ret.op = "upload_csv"
    /\ ~ret.ok
    /\ ret.error = "UNIQUE constraint failed: datasets.name"
    /\ \E d \in datasets : \E x \in dataset_samples : x.dataset_id = d.id

\* C14: after delete_dataset(id), no dataset sample of that dataset and no
\* dataset with that id is stored, get_dataset_report(id) finds nothing, every
\* other dataset with its samples and every city is as before, and a second
\* delete_dataset(id) changes nothing.
C14_DeleteRemovesOnlyThatDataset ==
    [][\A id \in DatasetIds :
           DeleteDataset(id) =>
               /\ \A x \in dataset_samples' : x.dataset_id # id
               /\ \A d \in datasets' : d.id # id
               /\ ~get_dataset_report(id)'.found
               /\ datasets' = {d \in datasets : d.id # id}
               /\ dataset_samples' = {x \in dataset_samples : x.dataset_id # id}
               /\ cities' = cities
               /\ delete_dataset(id)'.datasets = datasets'
               /\ delete_dataset(id)'.dataset_samples = dataset_samples']_vars

\* C14 witness: dataset 1 was deleted last, and dataset 2, uploaded while
\* dataset 1 was stored, is still there with its samples.
C14_Witness ==
    /\ ret.op = "delete_dataset"
    /\ ret.dataset_id = 1
    /\ \E d \in datasets : d.id = 2 /\ \E x \in dataset_samples : x.dataset_id = 2
    /\ cities # <<>>

\* C15: the delete route, called with an id for which no dataset is stored,
\* answers not-found and not ok.
C15_DeleteUnknownIsNotFound ==
    [][\A id \in DatasetIds :
           (DeleteDataset(id) /\ ~ \E d \in datasets : d.id = id) => ~ret'.ok]_vars

\* C17: a batch that lacks Latitude, Longitude or City, or that has none of
\* the fifteen recognized metal columns, is rejected by process_csv_data with
\* an error that names the missing columns, or the missing metal column when
\* the three are present; no row is computed and the upload leaves the store
\* as it was.
C17_InvalidBatchRejected ==
    [][ret'.op = "upload_csv" =>
           \A df \in ValidationFrames, n \in DatasetNames :
               LET missing == Range(required_columns) \ Range(df.columns)
                   metals == Range(df.columns) \cap Range(MetalOrder)
                   processed == process_csv_data(df)
               IN (UploadCsv(df, n) /\ (missing # {} \/ metals = {})) =>
                      /\ ~processed.ok
                      /\ "df" \notin DOMAIN processed
                      /\ missing # {} =>
                             processed.error = "required columns" /\ processed.missing = missing
                      /\ missing = {} => processed.error = "no metal column"
                      /\ ~ret'.ok
                      /\ ret'.error = processed.error
                      /\ store' = store]_vars

\* C17 witness: an upload was rejected for having no metal column while a
\* dataset with the last recognized metal alone is stored.
C17_Witness ==
    /\ ret.op = "upload_csv"
    /\ ~ret.ok
    /\ ret.error = "no metal column"
    /\ \E d \in datasets : d.metadata.columns[4] = "Thallium"

\* The samples that the upload which has just returned wrote, and the cities
\* the store held when the loop of save_dataset reached sample x: those stored
\* before the write and those inserted for earlier rows of the batch.
WrittenSamples == {x \in dataset_samples' : x.dataset_id = ret'.dataset_id}

KnownCities(x) ==
    1..Max({Len(cities)} \cup {y.city_id : y \in {z \in WrittenSamples : z.id < x.id}})

InBoxOfCity(k, x) ==
    /\ Abs(cities'[k].latitude - x.latitude) < Tol
    /\ Abs(cities'[k].longitude - x.longitude) < Tol

\* C18: in a dataset write that commits, a row resolves to a city already
\* stored at its turn (before the write, or inserted for an earlier row of
\* the batch) if and only if some such city has both |dlat| < 0.05 and
\* |dlon| < 0.05 to the row, and then to a city with that property; otherwise
\* the next city is inserted with the row's coordinates as its center and
\* the Unknown placeholders as state and country.  Stored cities are kept.
C18_RowResolvesByBox ==
    [][(ret'.op = "upload_csv" /\ ret'.ok) =>
           /\ SubSeq(cities', 1, Len(cities)) = cities
           /\ Len(cities') = Max({Len(cities)} \cup {x.city_id : x \in WrittenSamples})
           /\ \A x \in WrittenSamples :
                  /\ x.city_id \in KnownCities(x) <=>
                         \E k \in KnownCities(x) : InBoxOfCity(k, x)
                  /\ x.city_id \in KnownCities(x) => InBoxOfCity(x.city_id, x)
                  /\ x.city_id \notin KnownCities(x) =>
                         /\ x.city_id = Max(KnownCities(x) \cup {0}) + 1
                         /\ cities'[x.city_id].latitude = x.latitude
                         /\ cities'[x.city_id].longitude = x.longitude
                         /\ cities'[x.city_id].state = "Unknown State"
                         /\ cities'[x.city_id].country = "Unknown Country"]_vars

\* C18 witness: an upload has committed; its dataset holds two samples at
\* different points that share a city, and two stored cities lie within 0.05
\* of each other in latitude only.
C18_Witness ==
    /\ ret.op = "upload_csv"
    /\ ret.ok
    /\ \E x, y \in dataset_samples :
           /\ x.dataset_id = y.dataset_id
           /\ x.city_id = y.city_id
           /\ x.latitude # y.latitude
    /\ \E j, k \in DOMAIN cities :
           /\ Abs(cities[k].latitude - cities[j].latitude) < Tol
           /\ Abs(cities[k].longitude - cities[j].longitude) >= Tol

\* C23: the metals-analyzed list in the metadata of every stored dataset is
\* exactly the set of the fifteen recognized metal columns of its batch.
C23_MetalsAnalyzedAreRecognizedColumns ==
    \A d \in datasets :
        Range(d.metadata.metals_analyzed) =
            Range(d.metadata.columns) \cap Range(MetalOrder)

\* C24: for the dataset an upload has stored, when it has a non-null index,
\* the report's median is the median of the dataset's non-null indices (the
\* mean of the two middle ones for an even number) and equals the median of
\* the upload summary of the batch; min and max are the smallest and the
\* largest of those indices and the average lies between them.
C24_ReportMedianIsMedian ==
    [][(ret'.op = "upload_csv" /\ ret'.ok) =>
           \A df \in Batches(ReportRows, MaxRows), n \in DatasetNames, id \in DatasetIds :
               (UploadCsv(df, n) /\ id = ret'.dataset_id) =>
                   LET summary == get_summary_stats(process_csv_data(df).df)
                       statistics == get_dataset_report(id)'.statistics
                       values == {x.hmpi_value : x \in
                                     {y \in dataset_samples' :
                                         y.dataset_id = ret'.dataset_id /\ y.hmpi_value # NULL}}
                   IN ~statistics.empty =>
                          /\ statistics.median * summary.hmpi_range.median.den =
                                 summary.hmpi_range.median.num
                          /\ statistics.min = Min(values)
                          /\ statistics.max = Max(values)
                          /\ statistics.min = summary.hmpi_range.min
                          /\ statistics.max = summary.hmpi_range.max
                          /\ statistics.min <= statistics.average
                          /\ statistics.average <= statistics.max]_vars

\* C21: no step changes or removes a stored city: the cities before a step
\* are, row for row, the first cities after it; and cities are added only by
\* a write that has committed.
C21_CitiesOnlyGrowByCommit ==
    [][/\ Len(cities') >= Len(cities)
       /\ SubSeq(cities', 1, Len(cities)) = cities
       /\ cities' # cities =>
              ret'.ok /\ ret'.op \in {"upload_csv", "save_samples"}]_vars

\* C21 witness: the only dataset has been deleted and no sample is left,
\* and the cities its upload inserted are still stored.
C21_Witness ==
    /\ ret.op = "delete_dataset"
    /\ ret.ok
    /\ datasets = {}
    /\ dataset_samples = {}
    /\ samples = <<>>
    /\ Len(cities) >= 2

\* C26: every dataset sample refers to a stored dataset and to a stored
\* city, every dataset's total_samples is the number of dataset samples with
\* its id, and the sample count of get_stats is the sum of total_samples over
\* the datasets.
C26_SamplesBelongToDatasets ==
    /\ \A x \in dataset_samples :
           /\ \E d \in datasets : d.id = x.dataset_id
           /\ x.city_id \in DOMAIN cities
    /\ \A d \in datasets :
           /\ d.total_samples = Cardinality({x \in dataset_samples : x.dataset_id = d.id})
           /\ \A e \in datasets : e.id = d.id => e = d
    /\ get_stats.total_samples =
           SumOf([id \in {d.id : d \in datasets} |->
                     (CHOOSE d \in datasets : d.id = id).total_samples],
                 {d.id : d \in datasets})

\* C26 witness: the first dataset has been deleted and the second one, of two
\* rows, is stored with its two samples.
C26_Witness ==
    /\ ret.op = "delete_dataset"
    /\ ret.dataset_id = 1
    /\ \E d \in datasets : d.id = 2 /\ d.total_samples = 2
    /\ Cardinality(dataset_samples) = 2

-----------------------------------------------------------------------------
(* Claims on the samples table, its summary and the comparison.            *)

\* C6: a rebuild that follows a rebuild, with the samples unchanged in
\* between, leaves city_summary as the first rebuild left it.
C6_RebuildIdempotent ==
    [][(/\ ret.op = "update_city_summaries"
        /\ ret'.op = "update_city_summaries"
        /\ samples' = samples) => city_summary' = city_summary]_vars

\* C6 witness: a second rebuild in succession over a summary with an entry for
\* a city that has several samples.
C6_Witness ==
    /\ ret.op = "update_city_summaries"
    /\ ret.again
    /\ \E e \in city_summary : e.total_samples >= 2

\* The samples of city c that have an index.
Indexed(c) == {i \in DOMAIN samples : samples[i].city_id = c /\ samples[i].hmpi_value # NULL}

Rebuilt == ret.op = "update_city_summaries" \/ (ret.op = "save_samples" /\ ret.ok)

\* C7: after a completed rebuild, city_summary has exactly one entry per city
\* that has a sample with an index and none for any other city; the entry's
\* count is the number of such samples, its last-updated is their latest
\* upload timestamp, and its index and classification are those of a sample of
\* the city uploaded at that latest timestamp.
C7_SummaryMatchesSamples ==
    Rebuilt =>
        /\ \A e \in city_summary : e.city_id \in DOMAIN cities /\ Indexed(e.city_id) # {}
        /\ \A c \in DOMAIN cities :
               Indexed(c) # {} =>
                   /\ Cardinality({e \in city_summary : e.city_id = c}) = 1
                   /\ \A e \in city_summary :
                          e.city_id = c =>
                              /\ e.total_samples = Cardinality(Indexed(c))
                              /\ \A i \in Indexed(c) : samples[i].upload_date <= e.last_updated
                              /\ \E i \in Indexed(c) :
                                     /\ samples[i].upload_date = e.last_updated
                                     /\ samples[i].hmpi_value = e.latest_hmpi
                                     /\ samples[i].classification = e.latest_classification

\* C7 witness: after a rebuild, a city has an older and a newer sample with
\* different indices and the summary shows the newer, and a sample without an
\* index is stored.
C7_Witness ==
    /\ Rebuilt
    /\ \E i \in DOMAIN samples : samples[i].hmpi_value = NULL
    /\ \E i, j \in DOMAIN samples :
           /\ samples[i].city_id = samples[j].city_id
           /\ samples[i].upload_date < samples[j].upload_date
           /\ samples[i].hmpi_value # NULL /\ samples[j].hmpi_value # NULL
           /\ samples[i].hmpi_value # samples[j].hmpi_value
           /\ \E e \in city_summary :
                  e.city_id = samples[j].city_id /\ e.latest_hmpi = samples[j].hmpi_value

-----------------------------------------------------------------------------
(* Claims on the comparison of two cities.                                 *)

\* Labels a caller may pass to the city queries.
QueryLabels == {<<"a">>, <<"b">>, <<"A", "b">>, <<"z">>}

\* The exact average index of the samples of city c that have an index, as
\* the fraction num / den of hundredths.
AverageIndex(c) ==
    [num |-> SumOf([i \in Indexed(c) |-> samples[i].hmpi_value], Indexed(c)),
     den |-> Cardinality(Indexed(c))]

\* The average index of city c as the city view reports it: two decimals.
ReportedAverage(c) == round2(AverageIndex(c).num, AverageIndex(c).den)

\* C10 as stated: when both labels resolve to cities with data, compare names
\* as cleaner the city whose average index is strictly lower and reports the
\* absolute difference of the two averages, reports a tie with difference 0
\* when the averages are equal, and gives the same cleaner city and difference
\* in either order of the labels.
C10_CleanerHasLowerAverage ==
    \A A, B \in QueryLabels :
        LET a == get_city_data(A)
            b == get_city_data(B)
            x == AverageIndex(a.city_id)
            y == AverageIndex(b.city_id)
            verdict == compare_cities(A, B).analysis
        IN (a.has_data /\ b.has_data) =>
               /\ ~compare_cities(A, B).error
               /\ x.num * y.den < y.num * x.den =>
                      /\ verdict.cleaner_city = a.city
                      /\ verdict.pollution_difference * x.den * y.den =
                             y.num * x.den - x.num * y.den
               /\ y.num * x.den < x.num * y.den =>
                      /\ verdict.cleaner_city = b.city
                      /\ verdict.pollution_difference * x.den * y.den =
                             x.num * y.den - y.num * x.den
               /\ x.num * y.den = y.num * x.den =>
                      /\ verdict.cleaner_city = SimilarLevels
                      /\ verdict.pollution_difference = 0
               /\ compare_cities(B, A).analysis = verdict

\* C10 amended: when both labels resolve to cities with data, compare names as
\* cleaner the city whose average index, rounded to two decimals, is strictly
\* lower and reports the absolute difference of the two rounded averages,
\* reports a tie with difference 0 when the rounded averages are equal (in
\* particular when both labels resolve to one city), and gives the same
\* cleaner city and difference in either order of the labels.
C10_CleanerHasLowerReportedAverage ==
    \A A, B \in QueryLabels :
        LET a == get_city_data(A)
            b == get_city_data(B)
            x == ReportedAverage(a.city_id)
            y == ReportedAverage(b.city_id)
            verdict == compare_cities(A, B).analysis
        IN (a.has_data /\ b.has_data) =>
               /\ ~compare_cities(A, B).error
               /\ x < y => verdict.cleaner_city = a.city /\ verdict.pollution_difference = y - x
               /\ y < x => verdict.cleaner_city = b.city /\ verdict.pollution_difference = x - y
               /\ x = y =>
                      /\ verdict.cleaner_city = SimilarLevels
                      /\ verdict.pollution_difference = 0
               /\ compare_cities(B, A).analysis = verdict

\* C10 witness: two labels resolve to different cities with data, the exact
\* averages differ and the rounded ones are equal, so the comparison is a tie;
\* and a label compared with itself is a tie.
C10_Witness ==
    \E A, B \in QueryLabels :
        LET a == get_city_data(A)
            b == get_city_data(B)
        IN /\ a.has_data /\ b.has_data
           /\ a.city_id # b.city_id
           /\ AverageIndex(a.city_id).num * AverageIndex(b.city_id).den #
                  AverageIndex(b.city_id).num * AverageIndex(a.city_id).den
           /\ compare_cities(A, B).analysis.cleaner_city = SimilarLevels
           /\ compare_cities(A, A).analysis.pollution_difference = 0

-----------------------------------------------------------------------------
(* Claims on the search for nearby cities.                                 *)

\* Radii in kilometres a caller may pass (the route admits 5 to 200).
Radii == {5, 50, 200}

\* C11: for every label that get_city_data resolves to a stored city T, the
\* list of get_nearby_cities(label, radius) has no entry for T (the city at
\* T's center), whatever the letter case of the label and whether it is T's
\* full name or a substring of it.
C11_NearbyExcludesTarget ==
    \A label \in QueryLabels, radius \in Radii :
        LET T == get_city_data(label)
            nearby == get_nearby_cities(label, radius)
        IN T.in_database =>
               \A k \in DOMAIN nearby.nearby_cities :
                   nearby.nearby_cities[k].coordinates # T.city_center

\* Labels of SpecNearby: the target's full name, and a substring of the names
\* of the cities around it.
NearbyLabels == {<<"t">>, <<"c">>}

\* The stored city at the coordinates of an entry of nearby_cities.
CityAt(coordinates) ==
    CHOOSE i \in DOMAIN cities :
        /\ cities[i].latitude = coordinates.latitude
        /\ cities[i].longitude = coordinates.longitude

\* |dlat| + |dlon| between a center and the target's center.
Manhattan(center, T) ==
    Abs(center.latitude - T.city_center.latitude)
        + Abs(center.longitude - T.city_center.longitude)

\* City i is within radius / 111 degrees of the target's center in both axes
\* (coordinates in hundredths of a degree).
WithinRadius(i, T, radius) ==
    /\ Abs(cities[i].latitude - T.city_center.latitude) * 111 <= radius * 100
    /\ Abs(cities[i].longitude - T.city_center.longitude) * 111 <= radius * 100

\* The cities other than the target that qualify for the list.
Qualifying(T, radius) ==
    {i \in DOMAIN cities : i # T.city_id /\ WithinRadius(i, T, radius) /\ Indexed(i) # {}}

\* C12: every city returned by get_nearby_cities(label, radius) is within
\* radius / 111 degrees of the target's center in both axes and has a sample
\* with an index; at most 10 cities are returned, in ascending order of
\* |dlat| + |dlon|; and when more than 10 cities qualify, no omitted one is
\* strictly closer than a returned one.
C12_NearbyWithinRadiusRanked ==
    \A label \in NearbyLabels, radius \in Radii :
        LET T == get_city_data(label)
            list == get_nearby_cities(label, radius).nearby_cities
            returned == {CityAt(list[k].coordinates) : k \in DOMAIN list}
        IN T.in_database =>
               /\ \A k \in DOMAIN list :
                      /\ \E i \in DOMAIN cities :
                             /\ cities[i].latitude = list[k].coordinates.latitude
                             /\ cities[i].longitude = list[k].coordinates.longitude
                      /\ WithinRadius(CityAt(list[k].coordinates), T, radius)
                      /\ Indexed(CityAt(list[k].coordinates)) # {}
               /\ Len(list) <= 10
               /\ \A k, l \in DOMAIN list :
                      k < l => Manhattan(list[k].coordinates, T)
                                   <= Manhattan(list[l].coordinates, T)
               /\ Cardinality(Qualifying(T, radius)) > 10 =>
                      \A i \in Qualifying(T, radius) \ returned, k \in DOMAIN list :
                          ~ (Manhattan([latitude |-> cities[i].latitude,
                                        longitude |-> cities[i].longitude], T)
                                 < Manhattan(list[k].coordinates, T))

\* C12 witness: eleven cities qualify around the target and ten are returned,
\* the farthest being omitted; a smaller radius returns some but fewer; and the
\* first city of the list was stored after the second.
C12_Witness ==
    LET T == get_city_data(<<"t">>)
        wide == get_nearby_cities(<<"t">>, 200).nearby_cities
        narrow == get_nearby_cities(<<"t">>, 50).nearby_cities
    IN /\ T.in_database
       /\ Cardinality(Qualifying(T, 200)) = 11
       /\ Len(wide) = 10
       /\ \E i \in Qualifying(T, 200) :
              \A k \in DOMAIN wide :
                  Manhattan([latitude |-> cities[i].latitude,
                             longitude |-> cities[i].longitude], T)
                      > Manhattan(wide[k].coordinates, T)
       /\ Len(narrow) > 0 /\ Len(narrow) < Len(wide)
       /\ CityAt(wide[1].coordinates) > CityAt(wide[2].coordinates)

-----------------------------------------------------------------------------
(* Claims on the write lock.                                               *)

\* Process p gives up waiting for the lock in this step.
RefusedSave(p) ==
    /\ writers[p].request.kind = "save_dataset"
    /\ writers[p].pc = "waiting"
    /\ writers'[p].pc = "idle"

\* C16: a dataset save that is refused the write lock at the end of the
\* bounded wait leaves the store unchanged and fails with an outcome that is
\* not the bad-request outcome of a missing label or a duplicate name, nor
\* the outcome of an unhandled store failure.
C16_BusySaveIsRetryable ==
    [][\A p \in Procs :
           RefusedSave(p) =>
               /\ store' = store
               /\ ~ret'.ok
               /\ ret'.status \notin {BadRequest, ServerError}]_vars

\* Process p's call of update_city_summaries finds the lock held and returns
\* in this step.
SkippedRebuild(p) ==
    /\ writers[p].pc \in {"nested", "after"}
    /\ ~lock_free
    /\ writers'[p].pc \in {"committing", "idle"}

\* C19: a summary rebuild that finds the store locked raises nothing and
\* leaves city_summary as it was: save_samples, whose rows are committed,
\* returns normally, and save_dataset goes on to commit, after which its
\* dataset and one dataset sample per row are stored and city_summary is
\* still as it was.
C19_LockedRebuildIsSkipped ==
    [][\A p \in Procs :
           /\ SkippedRebuild(p) =>
                  /\ city_summary' = city_summary
                  /\ <<cities, samples, datasets, dataset_samples>>' =
                         <<cities, samples, datasets, dataset_samples>>
                  /\ writers[p].pc = "nested" => writers'[p].pc = "committing"
                  /\ writers[p].pc = "after" =>
                         ret'.op = "save_samples" /\ ret'.ok
           /\ (writers[p].pc = "committing" /\ writers'[p].pc = "idle") =>
                  /\ ret'.op = "upload_csv" /\ ret'.ok
                  /\ city_summary' = city_summary
                  /\ \E d \in datasets' \ datasets :
                         /\ d.id = ret'.dataset_id
                         /\ d.name = writers[p].request.name
                         /\ Cardinality({x \in dataset_samples' \ dataset_samples :
                                             x.dataset_id = d.id}) =
                                Len(writers[p].request.df.rows)]_vars

\* C19 witness: an upload has returned successfully and its dataset is
\* stored while city_summary lacks the rows of table samples, whose rebuild
\* was skipped as well.
C19_Witness ==
    /\ ret.op = "upload_csv"
    /\ ret.ok
    /\ \E d \in datasets : d.id = ret.dataset_id
    /\ samples # <<>>
    /\ city_summary # summary_rows(samples)

\* C20: at most one connection is inside a write transaction at any time, a
\* process with no write call in progress holds no lock, and every write call
\* that has been entered returns, whatever the other process does and also
\* when its rebuild waits for the lock its own caller holds.
C20_WritesTerminateExclusively ==
    /\ [](Cardinality(holders) <= 1)
    /\ [](\A p \in Procs :
             writers[p].pc = "idle" => ~writers[p].main /\ ~writers[p].rebuild)
    /\ \A p \in Procs : (writers[p].pc # "idle") ~> (writers[p].pc = "idle")

\* C20 witness: one process holds the lock while its own rebuild waits for
\* it, and the other process waits for the lock too.
C20_Witness ==
    \E p, q \in Procs :
        /\ p # q
        /\ writers[p].pc = "nested"
        /\ writers[p].main
        /\ writers[q].pc \in {"waiting", "after"}

\* C25: also when find_or_create_city calls overlap with each other or with
\* a dataset write, no two stored cities have centers with both coordinate
\* deltas below 0.05, and a call that inserts a city inserts it into a
\* store that has no city within the box of its point.
C25_ConcurrentFindKeepsBoxesApart ==
    [][/\ \A i, j \in DOMAIN cities' :
              i < j => \/ Abs(cities'[i].latitude - cities'[j].latitude) >= Tol
                       \/ Abs(cities'[i].longitude - cities'[j].longitude) >= Tol
       /\ \A p \in Procs :
              (writers[p].pc = "geocoding" /\ writers'[p].pc = "idle") =>
                  nearby_city(cities, writers[p].request.lat, writers[p].request.lon) = 0]_vars

=============================================================================
